---- MODULE Spec2Model ----
(***************************************************************************)
(* A model of the data-profile backend (src/hackenv): CSV ingestion into   *)
(* the fixed relational schema (database.py), the catalog and key-relation *)
(* endpoints (main.py, modules/Keys_Relation.py) and the data-quality      *)
(* analyzer (modules/dataquality.py).                                      *)
(*                                                                         *)
(* Texts that the code inspects character by character (CSV cells, stored  *)
(* identifier values) are sequences of one-character strings; names that   *)
(* the code only compares (table and column names, messages) are strings.  *)
(* Percentages are exact rationals <<numerator, denominator>>; the code    *)
(* computes them in IEEE doubles, whose rounding is outside this model.    *)
(* Requests are handled one at a time: the properties below are about      *)
(* sequences of requests.                                                  *)
(***************************************************************************)
EXTENDS Integers, Sequences, FiniteSets, TLC

(***************************************************************************)
(* Bounds of the model.                                                    *)
(***************************************************************************)
\* Rows a table holds at most: an upload that would exceed it is not issued.
MaxRows == 2
\* Lines of one uploaded CSV file.
MaxBatch == 2
\* Table names of one data-quality request.
MaxNames == 2
\* Connections left open before the model stops injecting storage failures.
MaxLeaked == 1

(***************************************************************************)
(* The relational schema: the declarative classes of database.py.          *)
(***************************************************************************)
Tables ==
    {"customer", "sales", "orders", "product", "product_category", "retailer",
     "self_position"}

\* Column names of a table, in declaration order.
Columns(t) ==
    CASE t = "customer" ->
           <<"customer_id", "name", "email", "phone", "address", "created_at">>
      [] t = "sales" ->
           <<"sales_id", "customer_id", "product_id", "retailer_id", "quantity",
             "total_price", "sales_date">>
      [] t = "orders" ->
           <<"order_id", "customer_id", "product_id", "retailer_id", "order_date",
             "status">>
      [] t = "product" ->
           <<"product_id", "name", "category_id", "price", "stock_quantity">>
      [] t = "product_category" -> <<"category_id", "category_name">>
      [] t = "retailer" -> <<"retailer_id", "name", "location">>
      [] t = "self_position" ->
           <<"position_id", "product_id", "shelf_location", "height">>

\* Columns declared primary_key=True, in declaration order.
PrimaryKeys(t) ==
    CASE t = "customer" -> <<"customer_id">>
      [] t = "sales" -> <<"sales_id">>
      [] t = "orders" -> <<"order_id">>
      [] t = "product" -> <<"product_id">>
      [] t = "product_category" -> <<"category_id">>
      [] t = "retailer" -> <<"retailer_id">>
      [] t = "self_position" -> <<"position_id">>

\* Columns that reject NULL: nullable=False, and the primary key.
NotNullColumns(t) ==
    CASE t = "customer" -> {"customer_id", "name"}
      [] t = "sales" -> {"sales_id", "quantity", "total_price"}
      [] t = "orders" -> {"order_id", "status"}
      [] t = "product" -> {"product_id", "name", "price", "stock_quantity"}
      [] t = "product_category" -> {"category_id", "category_name"}
      [] t = "retailer" -> {"retailer_id", "name"}
      [] t = "self_position" -> {"position_id", "shelf_location", "height"}

Fk(col, tab, refcol) ==
    [column |-> <<col>>, references_table |-> tab, references_column |-> <<refcol>>]

\* ForeignKey(...) declarations of a table, in declaration order.
ForeignKeys(t) ==
    CASE t = "sales" ->
           <<Fk("customer_id", "customer", "customer_id"),
             Fk("product_id", "product", "product_id"),
             Fk("retailer_id", "retailer", "retailer_id")>>
      [] t = "orders" ->
           <<Fk("customer_id", "customer", "customer_id"),
             Fk("product_id", "product", "product_id"),
             Fk("retailer_id", "retailer", "retailer_id")>>
      [] t = "product" -> <<Fk("category_id", "product_category", "category_id")>>
      [] t = "self_position" -> <<Fk("product_id", "product", "product_id")>>
      [] OTHER -> <<>>

Range(s) == {s[i] : i \in DOMAIN s}

(***************************************************************************)
(* Values.  A pandas cell value or a stored SQLite value is a record       *)
(* [k, n, s]: k is its kind, n the number of an "int" or "float" (the      *)
(* model's floats are whole numbers), s the text of a "str".               *)
(***************************************************************************)
NaN == [k |-> "nan", n |-> 0, s |-> <<>>]
PyNone == [k |-> "none", n |-> 0, s |-> <<>>]
IntVal(n) == [k |-> "int", n |-> n, s |-> <<>>]
FloatVal(n) == [k |-> "float", n |-> n, s |-> <<>>]
StrVal(s) == [k |-> "str", n |-> 0, s |-> s]
\* SQL NULL, as stored.
Null == [k |-> "null", n |-> 0, s |-> <<>>]

DigitChars == <<"0", "1", "2", "3", "4", "5", "6", "7", "8", "9">>

IsDigits(s) == Len(s) > 0 /\ \A i \in DOMAIN s : s[i] \in Range(DigitChars)

DigitValue(c) == (CHOOSE i \in DOMAIN DigitChars : DigitChars[i] = c) - 1

\* int("007") = 7: the parse of a decimal integer literal.
RECURSIVE ParseInt(_)
ParseInt(s) ==
    IF s = <<>> THEN 0
    ELSE 10 * ParseInt(SubSeq(s, 1, Len(s) - 1)) + DigitValue(s[Len(s)])

\* str(7) = "7": the decimal digits of a natural number.
RECURSIVE IntToStr(_)
IntToStr(n) ==
    IF n < 10 THEN <<DigitChars[n + 1]>>
    ELSE IntToStr(n \div 10) \o <<DigitChars[(n % 10) + 1]>>

(***************************************************************************)
(* upload_csv: reading and coercing the file.                              *)
(* A CSV file is [header, lines]: the header's column names and the lines' *)
(* cell texts, one per header column; an empty cell is <<>>.               *)
(***************************************************************************)
\* pd.read_csv infers one dtype per column: all cells integer literals ->
\* int64 (float64 when a cell is empty, the empty cells NaN); otherwise the
\* cells stay as their text (object), the empty cells NaN.
InferColumn(cells) ==
    LET filled == {i \in DOMAIN cells : cells[i] # <<>>}
        numeric == \A i \in filled : IsDigits(cells[i])
    IN  [i \in DOMAIN cells |->
            IF i \notin filled THEN NaN
            ELSE IF ~numeric THEN StrVal(cells[i])
            ELSE IF filled = DOMAIN cells THEN IntVal(ParseInt(cells[i]))
            ELSE FloatVal(ParseInt(cells[i]))]

\* The DataFrame of a file: [columns, rows]; rows[i][j] is the value of
\* column j (position in columns) on line i.
read_csv(csv) ==
    LET col(j) == InferColumn([i \in DOMAIN csv.lines |-> csv.lines[i][j]])
    IN  [columns |-> csv.header,
         rows |-> [i \in DOMAIN csv.lines |->
                      [j \in DOMAIN csv.header |-> col(j)[i]]]]

\* str.lower().str.strip() of the header names the model's files use.
NormalizeName(h) ==
    CASE h = " Retailer_ID" -> "retailer_id"
      [] h = "Name " -> "name"
      [] h = "LOCATION" -> "location"
      [] OTHER -> h

\* df.replace({np.nan: None})
ReplaceNaN(v) == IF v.k = "nan" THEN PyNone ELSE v

\* The columns upload_csv turns into strings.
id_columns ==
    {"customer_id", "product_id", "retailer_id", "order_id", "sales_id",
     "category_id", "position_id", "phone"}

\* Series.astype(str): str() of each value.
AsTypeStr(v) ==
    CASE v.k = "int" -> StrVal(IntToStr(v.n))
      [] v.k = "float" -> StrVal(IntToStr(v.n) \o <<".", "0">>)
      [] v.k = "none" -> StrVal(<<"N", "o", "n", "e">>)
      [] v.k = "nan" -> StrVal(<<"n", "a", "n">>)
      [] OTHER -> v

\* df.to_dict(orient="records") after the coercions of upload_csv: one
\* mapping column name -> value per line, the columns not in the table
\* dropped, the identifier and phone columns as strings.  (The tables the
\* model uploads to have no date or created_at column in their files, so
\* pd.to_datetime has nothing to convert.)
CoerceRecords(table_name, csv) ==
    LET df == read_csv(csv)
        names == [j \in DOMAIN df.columns |-> NormalizeName(df.columns[j])]
        table_columns == Range(Columns(table_name))
        kept == {j \in DOMAIN names : names[j] \in table_columns}
        pos(c) == CHOOSE j \in kept : names[j] = c
        value(i, c) ==
            LET v == ReplaceNaN(df.rows[i][pos(c)])
            IN  IF c \in id_columns THEN AsTypeStr(v) ELSE v
    IN  [i \in DOMAIN df.rows |-> [c \in {names[j] : j \in kept} |-> value(i, c)]]

(***************************************************************************)
(* Storage: SQLite behind the SQLAlchemy session.                          *)
(***************************************************************************)
\* The value SQLite stores in a String column (TEXT affinity) for a bound
\* parameter; None is NULL.
SqlValue(v) ==
    CASE v.k = "none" -> Null
      [] v.k = "nan" -> Null
      [] v.k = "int" -> StrVal(IntToStr(v.n))
      [] v.k = "float" -> StrVal(IntToStr(v.n) \o <<".", "0">>)
      [] OTHER -> v

\* The row an INSERT of one mapping makes: a column the mapping lacks is NULL.
StoredRow(t, rec) ==
    [c \in Range(Columns(t)) |-> IF c \in DOMAIN rec THEN SqlValue(rec[c]) ELSE Null]

\* The constraints the table checks on INSERT: NOT NULL, primary key unique.
ViolatesConstraint(t, present, row) ==
    \/ \E c \in NotNullColumns(t) : row[c] = Null
    \/ \E i \in DOMAIN present :
          \A j \in DOMAIN PrimaryKeys(t) :
              present[i][PrimaryKeys(t)[j]] = row[PrimaryKeys(t)[j]]

\* Session.bulk_insert_mappings: the INSERTs run one after the other inside
\* the session's transaction and stop at the first IntegrityError.  The
\* result is [ok, txn]: txn are the rows the open transaction has inserted.
RECURSIVE BulkInsert(_, _, _, _)
BulkInsert(t, stored, recs, txn) ==
    IF recs = <<>> THEN [ok |-> TRUE, txn |-> txn]
    ELSE LET row == StoredRow(t, Head(recs))
         IN  IF ViolatesConstraint(t, stored \o txn, row)
             THEN [ok |-> FALSE, txn |-> txn]
             ELSE BulkInsert(t, stored, Tail(recs), Append(txn, row))

\* Session.commit(): the transaction's rows become stored rows.
session_commit(stored, txn) == stored \o txn

\* A close that commits the open transaction instead of rolling it back.
session_close_commits(stored, pending) == stored \o pending

\* Session.close() in get_db's finally: the connection is released and what
\* the open transaction inserted is rolled back.
session_close(stored, pending) == stored

(***************************************************************************)
(* compute_metrics.  A DataFrame read from a table is the sequence of its  *)
(* rows; a NULL is a missing value.                                        *)
(***************************************************************************)
RECURSIVE GCD(_, _)
GCD(a, b) == IF b = 0 THEN a ELSE GCD(b, a % b)

\* numpy's nan, among the rationals <<numerator, denominator>>.
NaNQ == <<0, 0>>

Frac(n, d) == IF d = 0 THEN NaNQ ELSE <<n \div GCD(n, d), d \div GCD(n, d)>>

\* a / b on a numpy scalar: nan (with a warning) when b is 0.
NpDiv(a, b) == Frac(a, b)

\* (1 - q) * 100 and q * 100.
OneMinusTimes100(q) == IF q = NaNQ THEN NaNQ ELSE Frac((q[2] - q[1]) * 100, q[2])

Times100(q) == IF q = NaNQ THEN NaNQ ELSE Frac(q[1] * 100, q[2])

QAdd(p, q) ==
    IF p = NaNQ \/ q = NaNQ THEN NaNQ ELSE Frac(p[1] * q[2] + q[1] * p[2], p[2] * q[2])

Zero == Frac(0, 1)

Hundred == Frac(100, 1)

\* data[column].isnull().sum()
MissingIn(data, c) == Cardinality({i \in DOMAIN data : data[i][c] = Null})

\* data[column].nunique(): distinct values, the missing ones left out.
NUnique(data, c) == Cardinality({data[i][c] : i \in DOMAIN data} \ {Null})

\* data.isnull().sum().sum()
RECURSIVE TotalMissing(_, _)
TotalMissing(data, cols) ==
    IF cols = <<>> THEN 0 ELSE MissingIn(data, Head(cols)) + TotalMissing(data, Tail(cols))

\* data.nunique().sum()
RECURSIVE TotalUnique(_, _)
TotalUnique(data, cols) ==
    IF cols = <<>> THEN 0 ELSE NUnique(data, Head(cols)) + TotalUnique(data, Tail(cols))

\* data.duplicated().sum(): rows equal to an earlier row.
DuplicatedRows(data) ==
    Cardinality({i \in DOMAIN data : \E j \in DOMAIN data : j < i /\ data[j] = data[i]})

\* table_completeness = (1 - (total_missing_values / total_cells)) * 100
TableCompleteness(total_missing_values, total_cells) ==
    OneMinusTimes100(NpDiv(total_missing_values, total_cells))

\* The ratio without its * 100.
TableNullPercentageRatio(total_missing_values, total_cells) ==
    NpDiv(total_missing_values, total_cells)

\* table_null_percentage = (total_missing_values / total_cells) * 100
TableNullPercentage(total_missing_values, total_cells) ==
    Times100(NpDiv(total_missing_values, total_cells))

\* The record compute_metrics returns for a table without rows.
EmptyMetrics(table_name) ==
    [table_name |-> table_name,
     error |-> "Table is empty",
     total_rows |-> 0,
     missing_values |-> 0,
     duplicate_rows |-> 0,
     null_values_percentage |-> Zero,
     completeness_percentage |-> Zero,
     uniqueness_percentage |-> Zero,
     columns |-> <<>>]

\* compute_metrics past its empty-table return.  Series.nunique() is a
\* Python int, so nunique() / total_rows raises ZeroDivisionError when
\* total_rows is 0; the numpy divisions give nan instead.
FullMetrics(data, columns, table_name) ==
    LET total_rows == Len(data)
        total_cells == total_rows * Len(columns)
        total_missing_values == TotalMissing(data, columns)
        total_unique_values == TotalUnique(data, columns)
    IN  IF total_rows = 0 /\ columns # <<>>
        THEN [table_name |-> table_name, raised |-> "ZeroDivisionError"]
        ELSE [table_name |-> table_name,
              total_rows |-> total_rows,
              missing_values |-> total_missing_values,
              duplicate_rows |-> DuplicatedRows(data),
              null_values_percentage |->
                  TableNullPercentage(total_missing_values, total_cells),
              completeness_percentage |->
                  TableCompleteness(total_missing_values, total_cells),
              uniqueness_percentage |-> Times100(NpDiv(total_unique_values, total_cells)),
              columns |->
                  [c \in Range(columns) |->
                      [missing_values |-> MissingIn(data, c),
                       null_values_percentage |->
                           Times100(NpDiv(MissingIn(data, c), total_rows)),
                       completeness_percentage |->
                           OneMinusTimes100(NpDiv(MissingIn(data, c), total_rows)),
                       uniqueness_percentage |->
                           Times100(Frac(NUnique(data, c), total_rows))]]]

\* compute_metrics without its total_rows == 0 return.
compute_metrics_unguarded(data, columns, table_name) ==
    FullMetrics(data, columns, table_name)

compute_metrics(data, columns, table_name) ==
    IF Len(data) = 0 THEN EmptyMetrics(table_name)
    ELSE FullMetrics(data, columns, table_name)

(***************************************************************************)
(* get_keys_relations and the catalog inspector.                           *)
(***************************************************************************)
\* inspector.get_table_names(): the catalog's tables in name order.
TableOrder ==
    <<"customer", "orders", "product", "product_category", "retailer", "sales",
      "self_position">>

InCatalog(cat, t) == t \in cat

get_table_names(cat) == SelectSeq(TableOrder, LAMBDA t : InCatalog(cat, t))

\* key_relations: table -> {primary_keys, foreign_keys}.
KeyRelations(cat) ==
    [t \in Range(get_table_names(cat)) |->
        [primary_keys |-> PrimaryKeys(t), foreign_keys |-> ForeignKeys(t)]]

get_keys_relations(cat) == [key_relationships |-> KeyRelations(cat)]

(***************************************************************************)
(* get_data_quality: the helpers of one request.                           *)
(***************************************************************************)
\* Python's None, as a result field.
None == "None"

\* What the external summarizer answers when it answers.
LlmTexts == {"summary"}

\* The table_names parameter of POST /data-quality/: absent, or a string,
\* given as its comma-separated pieces (<<>> is the empty string).
AbsentParam == [present |-> FALSE, pieces |-> <<>>]

StringParam(pieces) == [present |-> TRUE, pieces |-> pieces]

\* table_names.split(",") if table_names else None
table_names_list(table_names) ==
    IF table_names.present /\ table_names.pieces # <<>>
    THEN [none |-> FALSE, list |-> table_names.pieces]
    ELSE [none |-> TRUE, list |-> <<>>]

\* SELECT * FROM table, read into a DataFrame.
\* A read that fetches the first row only.
get_data_from_table_first_row(stored, table) ==
    IF stored[table] = <<>> THEN <<>> ELSE <<Head(stored[table])>>

get_data_from_table(stored, table) == stored[table]

\* A loop body that raises for an unknown name.
NotFoundRaises(table) ==
    [raised |-> "HTTPException",
     item |-> [table_name |-> table, error |-> "Table not found", llm_analysis |-> None]]

\* The loop body for a name that is not in existing_tables.
NotFound(table) ==
    [raised |-> "",
     item |-> [table_name |-> table, error |-> "Table not found", llm_analysis |-> None]]

\* {**metrics, "llm_analysis": llm_analysis}
WithAnalysis(metrics, llm_analysis) ==
    [f \in DOMAIN metrics \cup {"llm_analysis"} |->
        IF f = "llm_analysis" THEN llm_analysis ELSE metrics[f]]

\* A result item without its llm_analysis.
MetricsOf(item) == [f \in DOMAIN item \ {"llm_analysis"} |-> item[f]]

(***************************************************************************)
(* State.                                                                  *)
(***************************************************************************)
VARIABLES
    catalog,       \* the tables of the database (sqlite_master)
    rows,          \* table -> its committed rows, in insertion order
    session,       \* the SQLAlchemy session of the request in flight
    http,          \* the get_db-scoped request in flight and its response
    dq,            \* the data-quality request in flight
    openConns,     \* sqlite3 connections of modules/dataquality.py now open
    acknowledged   \* table -> the rows of the uploads answered with success

vars == <<catalog, rows, session, http, dq, openConns, acknowledged>>

NoCsv == [header |-> <<>>, lines |-> <<>>]

ClosedSession == [open |-> FALSE, table |-> "", pending |-> <<>>]

OpenSession == [open |-> TRUE, table |-> "", pending |-> <<>>]

IdleHttp ==
    [pc |-> "idle", endpoint |-> "", table_name |-> "", csv |-> NoCsv, response |-> <<>>]

IdleDq ==
    [pc |-> "idle", table_names |-> AbsentParam, names |-> <<>>, existing_tables |-> {},
     idx |-> 1, results |-> <<>>, calls |-> <<>>, error |-> ""]

\* No request is in flight.
Quiet == http.pc = "idle" /\ dq.pc = "idle"

\* Base.metadata.create_all on an absent database file.
Init ==
    /\ catalog = Tables
    /\ rows = [t \in Tables |-> <<>>]
    /\ session = ClosedSession
    /\ http = IdleHttp
    /\ dq = IdleDq
    /\ openConns = 0
    /\ acknowledged = [t \in Tables |-> <<>>]

(***************************************************************************)
(* The requests the model issues.                                          *)
(***************************************************************************)
UploadNames == {"retailer", "ghost"}

Headers ==
    {<<"retailer_id", "name", "location">>,
     <<" Retailer_ID", "Name ", "LOCATION", "extra">>}

\* Lines of a retailer file: identifier, name, location.
SampleLines ==
    {<<<<"0", "0", "7">>, <<"b">>, <<"c">>>>,
     <<<<"7">>, <<"b">>, <<>>>>,
     <<<<"a">>, <<"b">>, <<"c">>>>,
     <<<<"a">>, <<>>, <<"c">>>>,
     <<<<>>, <<"b">>, <<>>>>}

SeqsUpTo(S, n) == UNION {[1..k -> S] : k \in 0..n}

\* A line of a file with the header h: the "extra" column's cell is "x".
LineFor(h, line) == IF Len(h) = 4 THEN Append(line, <<"x">>) ELSE line

CsvFiles ==
    {[header |-> h, lines |-> [i \in DOMAIN ls |-> LineFor(h, ls[i])]] :
        h \in Headers, ls \in SeqsUpTo(SampleLines, MaxBatch)}

\* The files sent to a table name that does not exist: what they hold is
\* never looked at.
ShortCsvFiles == {csv \in CsvFiles : Len(csv.lines) <= 1}

RequestNames == {"retailer", "product_category", "ghost"}

QueryParams ==
    {AbsentParam} \cup {StringParam(p) : p \in SeqsUpTo(RequestNames, MaxNames)}

(***************************************************************************)
(* database.py: POST /upload_csv/{table_name}, with get_db's session.      *)
(***************************************************************************)
Responded(endpoint, table_name, csv, response) ==
    [pc |-> "responded", endpoint |-> endpoint, table_name |-> table_name,
     csv |-> csv, response |-> response]

\* The table name is not a key of the tables dictionary.
UploadInvalidTable(table_name, csv) ==
    /\ Quiet
    /\ table_name \notin Tables
    /\ session' = OpenSession
    /\ http' = Responded("upload_csv", table_name, csv, [error |-> "Invalid table name"])
    /\ UNCHANGED <<catalog, rows, dq, openConns, acknowledged>>

\* The table is known.  Either bulk_insert_mappings and commit succeed, or
\* an INSERT raises IntegrityError: then the except clause answers with
\* the error, and the transaction stays open until get_db closes the
\* session.
UploadCsv(table_name, csv) ==
    /\ Quiet
    /\ table_name \in Tables
    /\ LET recs == CoerceRecords(table_name, csv)
           res == BulkInsert(table_name, rows[table_name], recs, <<>>)
       IN  IF res.ok
           THEN /\ Len(rows[table_name]) + Len(csv.lines) <= MaxRows
                /\ rows' = [rows EXCEPT ![table_name] = session_commit(@, res.txn)]
                /\ acknowledged' =
                       [acknowledged EXCEPT
                           ![table_name] =
                               @ \o [i \in DOMAIN recs |-> StoredRow(table_name, recs[i])]]
                /\ session' = [OpenSession EXCEPT !.table = table_name]
                /\ http' = Responded("upload_csv", table_name, csv,
                                     [message |-> <<"CSV uploaded successfully to",
                                                    table_name>>])
           ELSE /\ session' = [open |-> TRUE, table |-> table_name, pending |-> res.txn]
                /\ http' = Responded("upload_csv", table_name, csv,
                                     [error |-> "IntegrityError"])
                /\ UNCHANGED <<rows, acknowledged>>
    /\ UNCHANGED <<catalog, dq, openConns>>

(***************************************************************************)
(* main.py: the catalog and key-relation endpoints.                        *)
(***************************************************************************)
ReadEndpoint(endpoint, table_name, response) ==
    /\ Quiet
    /\ session' = OpenSession
    /\ http' = Responded(endpoint, table_name, NoCsv, response)
    /\ UNCHANGED <<catalog, rows, dq, openConns, acknowledged>>

\* GET /keys_relation
keys_relations ==
    ReadEndpoint("keys_relation", "",
                 [message |-> "Welcome to the FastAPI Service",
                  key_relationships |-> get_keys_relations(catalog)])

\* GET /get_keys_relations
get_keys_relations_endpoint ==
    ReadEndpoint("get_keys_relations", "", get_keys_relations(catalog))

\* GET /get_tables
get_tables == ReadEndpoint("get_tables", "", [tables |-> get_table_names(catalog)])

\* GET /get_tables_with_columns
get_tables_with_columns ==
    ReadEndpoint("get_tables_with_columns", "",
                 [tables_with_columns |->
                     [t \in Range(get_table_names(catalog)) |-> Columns(t)]])

\* GET /get_table_columns/{table_name}
get_table_columns(table_name) ==
    ReadEndpoint("get_table_columns", table_name,
                 IF table_name \notin Range(get_table_names(catalog))
                 THEN [error |-> <<"Table does not exist", table_name>>]
                 ELSE [table |-> table_name, columns |-> Columns(table_name)])

\* get_db's finally, once the response is made: db.close().
GetDbFinally ==
    /\ http.pc = "responded"
    /\ rows' = IF session.table \in Tables
               THEN [rows EXCEPT ![session.table] = session_close(@, session.pending)]
               ELSE rows
    /\ session' = ClosedSession
    /\ http' = IdleHttp
    /\ UNCHANGED <<catalog, dq, openConns, acknowledged>>

(***************************************************************************)
(* main.py data_quality and modules/dataquality.py get_data_quality.       *)
(***************************************************************************)
Failed(d, error) == [d EXCEPT !.pc = "failed", !.error = error]

\* The request up to the loop: the catalog query succeeds and its
\* connection is closed; iterating over None raises TypeError.
DataQuality(table_names) ==
    /\ Quiet
    /\ LET tnl == table_names_list(table_names)
           started == [IdleDq EXCEPT !.table_names = table_names, !.names = tnl.list,
                                     !.existing_tables = catalog]
       IN  dq' = IF tnl.none THEN Failed(started, "TypeError")
                 ELSE [started EXCEPT !.pc = "loop"]
    /\ UNCHANGED <<catalog, rows, session, http, openConns, acknowledged>>

\* cursor.execute on sqlite_master raises: conn.close() is not reached.
DataQualityCatalogFails(table_names) ==
    /\ Quiet
    /\ openConns < MaxLeaked
    /\ dq' = Failed([IdleDq EXCEPT !.table_names = table_names,
                                   !.names = table_names_list(table_names).list],
                    "DatabaseError")
    /\ openConns' = openConns + 1
    /\ UNCHANGED <<catalog, rows, session, http, acknowledged>>

InLoop == dq.pc = "loop" /\ dq.idx <= Len(dq.names)

\* One iteration, for a name that is not in existing_tables.
DqNotFound ==
    /\ InLoop
    /\ dq.names[dq.idx] \notin dq.existing_tables
    /\ LET out == NotFound(dq.names[dq.idx])
       IN  dq' = IF out.raised # "" THEN Failed(dq, out.raised)
                 ELSE [dq EXCEPT !.results = Append(@, out.item), !.idx = @ + 1]
    /\ UNCHANGED <<catalog, rows, session, http, openConns, acknowledged>>

\* One iteration where pd.read_sql_query raises in get_data_from_table:
\* its conn.close() is not reached.
DqQueryFails ==
    /\ InLoop
    /\ dq.names[dq.idx] \in dq.existing_tables
    /\ openConns < MaxLeaked
    /\ dq' = Failed(dq, "DatabaseError")
    /\ openConns' = openConns + 1
    /\ UNCHANGED <<catalog, rows, session, http, acknowledged>>

\* One iteration where the table is read (its connection opened and
\* closed) and the summarizer is called.
DqAnalyze(llm) ==
    /\ InLoop
    /\ dq.names[dq.idx] \in dq.existing_tables
    /\ LET table == dq.names[dq.idx]
           data == get_data_from_table(rows, table)
           metrics == compute_metrics(data, Columns(table), table)
       IN  dq' = IF "raised" \in DOMAIN metrics THEN Failed(dq, metrics.raised)
                 ELSE IF llm = "raise"
                 THEN [Failed(dq, "SummarizerError") EXCEPT !.calls = Append(@, metrics)]
                 ELSE [dq EXCEPT !.calls = Append(@, metrics),
                                 !.results = Append(@, WithAnalysis(metrics, llm)),
                                 !.idx = @ + 1]
    /\ UNCHANGED <<catalog, rows, session, http, openConns, acknowledged>>

\* One iteration where get_llm_analysis returns the summarizer's text.
DqAnalyzed == \E llm \in LlmTexts : DqAnalyze(llm)

\* One iteration where the summarizer call raises.
DqSummarizerFails == DqAnalyze("raise")

\* return results
DqReturn ==
    /\ dq.pc = "loop"
    /\ dq.idx > Len(dq.names)
    /\ dq' = [dq EXCEPT !.pc = "returned"]
    /\ UNCHANGED <<catalog, rows, session, http, openConns, acknowledged>>

\* The response (the result list, or the server error) has been sent.
DqRespond ==
    /\ dq.pc \in {"returned", "failed"}
    /\ dq' = IdleDq
    /\ UNCHANGED <<catalog, rows, session, http, openConns, acknowledged>>

Next ==
    \/ \E t \in UploadNames, csv \in ShortCsvFiles : UploadInvalidTable(t, csv)
    \/ \E t \in UploadNames, csv \in CsvFiles : UploadCsv(t, csv)
    \/ keys_relations
    \/ get_keys_relations_endpoint
    \/ get_tables
    \/ get_tables_with_columns
    \/ \E t \in RequestNames : get_table_columns(t)
    \/ GetDbFinally
    \/ \E p \in QueryParams : DataQuality(p)
    \/ \E p \in QueryParams : DataQualityCatalogFails(p)
    \/ DqNotFound
    \/ DqQueryFails
    \/ DqAnalyzed
    \/ DqSummarizerFails
    \/ DqReturn
    \/ DqRespond

Spec == Init /\ [][Next]_vars

(***************************************************************************)
(* Properties.                                                             *)
(***************************************************************************)
Results == {dq.results[i] : i \in DOMAIN dq.results}

\* The request got past the catalog query and is in or after its loop.
Looping == dq.pc \in {"loop", "returned"}

NotFoundItem(table) ==
    [table_name |-> table, error |-> "Table not found", llm_analysis |-> None]

\* C1: while and after get_data_quality loops over the requested names, the
\* result holds one item per processed name, in request order; the item of
\* a name that is not in the catalog is {table_name, error: "Table not
\* found", llm_analysis: None}, the item of a table with rows carries its
\* metrics without an error; a returned request has one item per requested
\* name; and a request fails only where a catalogued name is being analyzed
\* (storage or summarizer failure) or before the loop, never on an unknown name.
C1_PartialFailure ==
    /\ Looping =>
          /\ Len(dq.results) = dq.idx - 1
          /\ \A i \in DOMAIN dq.results :
                /\ dq.results[i].table_name = dq.names[i]
                /\ dq.names[i] \notin catalog => dq.results[i] = NotFoundItem(dq.names[i])
                /\ (dq.names[i] \in catalog /\ rows[dq.names[i]] # <<>>) =>
                      /\ "error" \notin DOMAIN dq.results[i]
                      /\ dq.results[i].total_rows = Len(rows[dq.names[i]])
    /\ dq.pc = "returned" => Len(dq.results) = Len(dq.names)
    /\ dq.pc = "failed" =>
          /\ dq.error \in {"TypeError", "DatabaseError", "SummarizerError"}
          /\ (dq.existing_tables # {} /\ dq.idx <= Len(dq.names)) =>
                dq.names[dq.idx] \in catalog

\* A returned request for an unknown name next to a table that has rows.
C1_Witness ==
    /\ dq.pc = "returned"
    /\ rows["retailer"] # <<>>
    /\ \E i, j \in DOMAIN dq.names : dq.names[i] = "ghost" /\ dq.names[j] = "retailer"

\* C2: the summarizer is never called with metrics that carry an error
\* field, and a result item with an error field has llm_analysis None.
C2_NoCallOnError ==
    /\ \A i \in DOMAIN dq.calls : "error" \notin DOMAIN dq.calls[i]
    /\ \A item \in Results : "error" \in DOMAIN item => item.llm_analysis = None

\* C3: the stored rows of every table are exactly the rows of the uploads
\* that were answered with the success message, in request order: an
\* upload answered with an error leaves none of its rows.
C3_AtomicBatch == rows = acknowledged

\* An upload answered with an error after some of its rows were inserted
\* in the transaction, into a table that holds rows of an earlier upload.
C3_Witness ==
    /\ http.pc = "responded"
    /\ http.endpoint = "upload_csv"
    /\ "error" \in DOMAIN http.response
    /\ session.pending # <<>>
    /\ rows[http.table_name] # <<>>

\* C4: when no request is in flight no connection or session is open.
C4_ReleasedAtEnd ==
    /\ dq.pc \in {"idle", "returned", "failed"} => openConns = 0
    /\ http.pc = "idle" => ~session.open

\* C5: the item of a catalogued table that has no rows is the all-zero
\* record with the "Table is empty" marker and an empty per-column map, and
\* no request fails with a division error.
C5_EmptyTable ==
    /\ Looping =>
          \A i \in DOMAIN dq.results :
              (dq.names[i] \in catalog /\ rows[dq.names[i]] = <<>>) =>
                  /\ dq.results[i].error = "Table is empty"
                  /\ dq.results[i].total_rows = 0
                  /\ dq.results[i].missing_values = 0
                  /\ dq.results[i].duplicate_rows = 0
                  /\ dq.results[i].null_values_percentage = Zero
                  /\ dq.results[i].completeness_percentage = Zero
                  /\ dq.results[i].uniqueness_percentage = Zero
                  /\ dq.results[i].columns = <<>>
    /\ dq.error # "ZeroDivisionError"

\* A returned request that analyzed two empty tables, of three and of two
\* columns.
C5_Witness ==
    /\ dq.pc = "returned"
    /\ dq.names = <<"retailer", "product_category">>
    /\ rows["retailer"] = <<>>
    /\ Len(Columns("retailer")) # Len(Columns("product_category"))

HasMetrics(item) == "completeness_percentage" \in DOMAIN item

PercentSum(item) == QAdd(item.completeness_percentage, item.null_values_percentage)

\* C6 as stated: every metrics record has completeness_percentage +
\* null_values_percentage = 100.
C6_SumIsHundred == \A item \in Results : HasMetrics(item) => PercentSum(item) = Hundred

\* C6 as amended: the two percentages of the metrics of a table that has
\* rows add up to 100 (in exact arithmetic); those of an empty table are
\* both 0.
C6_SumIsHundredUnlessEmpty ==
    \A item \in Results :
        HasMetrics(item) =>
            IF item.total_rows = 0 THEN PercentSum(item) = Zero
            ELSE PercentSum(item) = Hundred

\* A result with metrics of a table that has rows and missing values.
C6_Witness ==
    \E item \in Results :
        HasMetrics(item) /\ item.total_rows > 0 /\ item.missing_values > 0

\* C7: a request whose table-name input is absent or empty does not fail
\* (but for a storage or summarizer failure) and returns one item per
\* table of the catalog.
C7_EmptyMeansAll ==
    (dq.pc # "idle" /\ (~dq.table_names.present \/ dq.table_names.pieces = <<>>)) =>
        /\ dq.pc = "failed" => dq.error \in {"DatabaseError", "SummarizerError"}
        /\ dq.pc = "returned" => {item.table_name : item \in Results} = catalog

\* C8: after a successful upload, every non-empty cell of an identifier or
\* phone column of the file is stored as the cell's text.
C8_IdentifierText ==
    (/\ http.pc = "responded"
     /\ http.endpoint = "upload_csv"
     /\ "message" \in DOMAIN http.response) =>
        LET stored == rows[http.table_name]
            first == Len(stored) - Len(http.csv.lines)
        IN  \A i \in DOMAIN http.csv.lines, j \in DOMAIN http.csv.header :
                LET c == NormalizeName(http.csv.header[j])
                IN  (/\ c \in id_columns
                     /\ c \in Range(Columns(http.table_name))
                     /\ http.csv.lines[i][j] # <<>>) =>
                        stored[first + i][c] = StrVal(http.csv.lines[i][j])

\* C9: the responses of GET /keys_relation and GET /get_keys_relations
\* both have key_relationships mapping each table of the catalog to its
\* {primary_keys, foreign_keys}.
C9_SameShape ==
    (http.pc = "responded" /\ http.endpoint \in {"keys_relation", "get_keys_relations"}) =>
        /\ DOMAIN http.response.key_relationships = catalog
        /\ http.response.key_relationships = KeyRelations(catalog)

\* A step that answers an upload.
UploadStep == http.pc = "idle" /\ http'.endpoint = "upload_csv"

\* The reports in flight are those of the stored rows and of the catalog.
C10_Reflects ==
    /\ Looping =>
          \A i \in DOMAIN dq.results :
              dq.names[i] \in catalog =>
                  MetricsOf(dq.results[i]) =
                      compute_metrics(rows[dq.names[i]], Columns(dq.names[i]), dq.names[i])
    /\ (http.pc = "responded" /\ http.endpoint = "get_keys_relations") =>
          http.response.key_relationships = KeyRelations(catalog)
    /\ dq.pc = "idle" =>
          dq.results = <<>> /\ dq.calls = <<>> /\ dq.names = <<>>

\* C10: every step but the answering of an upload leaves the stored rows
\* and the catalog as they are, and the reports of the analysis and of the
\* key relations are those of the rows and catalog stored at that time,
\* nothing of a request being kept once it is answered.
C10_ReadOnly ==
    /\ []C10_Reflects
    /\ [][(~UploadStep => rows' = rows) /\ catalog' = catalog]_vars

\* A returned analysis of a table holding two rows.
C10_Witness ==
    /\ dq.pc = "returned"
    /\ \E i \in DOMAIN dq.names : dq.names[i] = "retailer"
    /\ Len(rows["retailer"]) >= 2
====
